---- MODULE Spec2Model ----
(***************************************************************************)
(* Model of src/verify.fidou2f.webauthn.js: verification of a FIDO U2F    *)
(* WebAuthn attestation response.                                         *)
(*                                                                         *)
(* Buffers are sequences of bytes (0..255).  A base64 / base64url string   *)
(* is a sequence of characters, each written as its 6-bit value 0..63 (the *)
(* two alphabets differ only in the glyphs of 62 and 63) or PadChar for    *)
(* '='.  JavaScript values are tagged records [t |-> tag, v |-> payload].  *)
(* A call that can throw returns [ok |-> FALSE, err |-> kind] or           *)
(* [ok |-> TRUE, val |-> value].                                           *)
(***************************************************************************)
EXTENDS Integers, Sequences, FiniteSets, TLC

----------------------------------------------------------------------------
(* Byte buffers                                                            *)

Min(a, b) == IF a <= b THEN a ELSE b

\* n copies of byte b
Fill(n, b) == [i \in 1..n |-> b]

\* n bytes counting up from b
Ramp(n, b) == [i \in 1..n |-> (b + i - 1) % 256]

\* Buffer.prototype.slice(start, end) for 0 <= start <= end: both ends are
\* clamped to the buffer, nothing is ever thrown (0-based, end exclusive).
Slice(buf, start, end) ==
  SubSeq(buf, Min(start, Len(buf)) + 1, Min(end, Len(buf)))

\* Buffer.prototype.slice(start): the rest of the buffer
SliceFrom(buf, start) == Slice(buf, start, Len(buf))

RECURSIVE BEValue(_, _, _)
\* big-endian value of the n bytes of buf that start at 1-based position pos
BEValue(buf, pos, n) ==
  IF n = 0 THEN 0
  ELSE 256 * BEValue(buf, pos, n - 1) + buf[pos + n - 1]

RECURSIVE LEValue(_, _, _)
LEValue(buf, pos, n) ==
  IF n = 0 THEN 0 ELSE buf[pos] + 256 * LEValue(buf, pos + 1, n - 1)

\* the integer read with the bytes in the wrong order (readUInt32LE)
ReadUIntLE(buf, n) ==
  IF Len(buf) < n THEN [ok |-> FALSE, err |-> "RangeError"]
  ELSE [ok |-> TRUE, val |-> LEValue(buf, 1, n)]

\* buf.readUInt32BE(0) / buf.readUInt16BE(0): RangeError when the buffer is
\* shorter than the integer
ReadUIntBE(buf, n) ==
  IF Len(buf) < n THEN [ok |-> FALSE, err |-> "RangeError"]
  ELSE [ok |-> TRUE, val |-> BEValue(buf, 1, n)]

RECURSIVE BitOr(_, _)
\* a | b, the operator one key away from &
BitOr(a, b) ==
  IF a = 0 /\ b = 0 THEN 0
  ELSE (IF a % 2 = 1 \/ b % 2 = 1 THEN 1 ELSE 0) + 2 * BitOr(a \div 2, b \div 2)

RECURSIVE BitAnd(_, _)
\* a & b on non-negative integers
BitAnd(a, b) ==
  IF a = 0 \/ b = 0 THEN 0
  ELSE (a % 2) * (b % 2) + 2 * BitAnd(a \div 2, b \div 2)

RECURSIVE Concat(_)
\* Buffer.concat(list) for a list of buffers
Concat(list) ==
  IF list = <<>> THEN <<>> ELSE Head(list) \o Concat(Tail(list))

\* buf with the byte at 1-based position i changed
FlipByte(buf, i) == [buf EXCEPT ![i] = (@ + 1) % 256]

----------------------------------------------------------------------------
(* JavaScript values                                                       *)

Undefined == [t |-> "undefined", v |-> 0]
Buf(bytes) == [t |-> "buf", v |-> bytes]
Str(bytes) == [t |-> "str", v |-> bytes]
JsInt(n) == [t |-> "int", v |-> n]
JsBool(b) == [t |-> "bool", v |-> b]
Arr(items) == [t |-> "array", v |-> items]
\* a decoded CBOR map: the sequence of its <<key, value>> pairs
MapOf(pairs) == [t |-> "map", v |-> pairs]

IsBuffer(x) == x.t = "buf"

SameValue(a, b) == a.t = b.t /\ a.v = b.v

\* a CBOR map decodes to a plain object when every key is a text string and
\* to a Map otherwise
IsObject(x) == x.t = "map" /\ \A i \in 1..Len(x.v) : x.v[i][1].t = "str"
IsMap(x) == x.t = "map" /\ ~IsObject(x)

RECURSIVE Lookup(_, _, _)
\* the value of the last pair among the first n whose key is k
Lookup(pairs, k, n) ==
  IF n = 0 THEN Undefined
  ELSE IF SameValue(pairs[n][1], k) THEN pairs[n][2]
  ELSE Lookup(pairs, k, n - 1)

\* obj.name: [ok |-> FALSE] is the TypeError of reading a property of
\* undefined; any other value without that property gives undefined
GetProp(obj, name) ==
  IF obj.t = "undefined" THEN [ok |-> FALSE, err |-> "TypeError"]
  ELSE IF IsObject(obj)
    THEN [ok |-> TRUE, val |-> Lookup(obj.v, Str(name), Len(obj.v))]
  ELSE [ok |-> TRUE, val |-> Undefined]

\* list[0]
First(x) ==
  IF x.t = "undefined" THEN [ok |-> FALSE, err |-> "TypeError"]
  ELSE IF x.t = "array" /\ Len(x.v) > 0 THEN [ok |-> TRUE, val |-> x.v[1]]
  ELSE IF x.t = "buf" /\ Len(x.v) > 0 THEN [ok |-> TRUE, val |-> JsInt(x.v[1])]
  ELSE IF x.t = "str" /\ Len(x.v) > 0
    THEN [ok |-> TRUE, val |-> Str(<<x.v[1]>>)]
  ELSE [ok |-> TRUE, val |-> Undefined]

\* m.get(k): a TypeError unless m is a Map
MapGet(m, k) ==
  IF IsMap(m) THEN [ok |-> TRUE, val |-> Lookup(m.v, k, Len(m.v))]
  ELSE [ok |-> FALSE, err |-> "TypeError"]

----------------------------------------------------------------------------
(* base64 and base64url                                                    *)

\* the character '='
PadChar == 64

RECURSIVE Pow(_, _)
Pow(b, e) == IF e = 0 THEN 1 ELSE b * Pow(b, e - 1)

ByteOr0(buf, i) == IF i <= Len(buf) THEN buf[i] ELSE 0

\* buf.toString('base64'): three bytes give four characters, a last group
\* of one or two bytes is padded with '='
ToBase64(buf) ==
  LET n == Len(buf)
      groups == (n + 2) \div 3
      Char(j) ==
        LET g == (j - 1) \div 4
            k == (j - 1) % 4
            triple == 65536 * buf[3 * g + 1] + 256 * ByteOr0(buf, 3 * g + 2)
                        + ByteOr0(buf, 3 * g + 3)
        IN  IF (k = 2 /\ 3 * g + 2 > n) \/ (k = 3 /\ 3 * g + 3 > n)
              THEN PadChar
              ELSE (triple \div Pow(64, 3 - k)) % 64
  IN  [j \in 1..(4 * groups) |-> Char(j)]

\* number of characters of str before the first '='
DataLen(str) ==
  LET pads == {i \in 1..Len(str) : str[i] = PadChar}
  IN  IF pads = {} THEN Len(str)
      ELSE (CHOOSE i \in pads : \A j \in pads : i <= j) - 1

\* Buffer.from(str, 'base64'): decoding stops at the first '='; every 8
\* complete bits give a byte and left-over bits are dropped
FromBase64(str) ==
  LET m == DataLen(str)
      Byte(i) ==
        LET q == (8 * (i - 1)) \div 6
            r == (8 * (i - 1)) % 6
        IN  ((64 * str[q + 1] + str[q + 2]) \div Pow(2, 4 - r)) % 256
  IN  [i \in 1..((6 * m) \div 8) |-> Byte(i)]

\* a base64 / base64url text
B64Str(chars) == [t |-> "b64", v |-> chars]

\* base64url.fromBuffer: base64 without the padding
ToBase64Url(buf) == LET s == ToBase64(buf) IN SubSeq(s, 1, DataLen(s))

\* base64url.toBuffer(x): x.toString() is a TypeError on undefined; the
\* text is padded to a multiple of four and decoded as base64
base64url_toBuffer(x) ==
  IF x.t = "b64" THEN [ok |-> TRUE, val |-> FromBase64(x.v)]
  ELSE [ok |-> FALSE, err |-> "TypeError"]

----------------------------------------------------------------------------
(* CBOR (RFC 7049), definite-length items                                  *)

\* the initial byte(s) of an item of major type mt with argument n
EncHead(mt, n) ==
  IF n < 24 THEN <<32 * mt + n>>
  ELSE IF n < 256 THEN <<32 * mt + 24, n>>
  ELSE <<32 * mt + 25, n \div 256, n % 256>>

EncInt(n) == IF n >= 0 THEN EncHead(0, n) ELSE EncHead(1, -1 - n)
EncBstr(bytes) == EncHead(2, Len(bytes)) \o bytes
EncTstr(bytes) == EncHead(3, Len(bytes)) \o bytes
\* items: the encodings of the elements
EncArray(items) == EncHead(4, Len(items)) \o Concat(items)
\* items: the encodings key1, value1, key2, value2, ...
EncMap(items) == EncHead(5, Len(items) \div 2) \o Concat(items)

DecodeFail == [ok |-> FALSE, val |-> Undefined, next |-> 0]

RECURSIVE Pairs(_)
Pairs(items) ==
  IF Len(items) < 2 THEN <<>>
  ELSE << <<items[1], items[2]>> >> \o Pairs(SubSeq(items, 3, Len(items)))

RECURSIVE DecodeItem(_, _), DecodeItems(_, _, _)
\* the data item of buf that starts at position pos: its value and the
\* position after it, or a failure when the bytes end early or the initial
\* byte is not well-formed
DecodeItem(buf, pos) ==
  IF pos > Len(buf) THEN DecodeFail
  ELSE
    LET mt == buf[pos] \div 32
        ai == buf[pos] % 32
        argLen == IF ai < 24 THEN 0 ELSE Pow(2, ai - 24)
    IN  IF ai > 27 \/ pos + argLen > Len(buf) THEN DecodeFail
        ELSE
          LET arg == IF ai < 24 THEN ai ELSE BEValue(buf, pos + 1, argLen)
              at == pos + 1 + argLen
          IN  CASE mt = 0 -> [ok |-> TRUE, val |-> JsInt(arg), next |-> at]
                [] mt = 1 -> [ok |-> TRUE, val |-> JsInt(-1 - arg), next |-> at]
                [] mt \in {2, 3} ->
                     IF at + arg - 1 > Len(buf) THEN DecodeFail
                     ELSE [ok |-> TRUE,
                           val |-> [t |-> IF mt = 2 THEN "buf" ELSE "str",
                                    v |-> SubSeq(buf, at, at + arg - 1)],
                           next |-> at + arg]
                [] mt = 4 ->
                     LET r == DecodeItems(buf, at, arg)
                     IN  IF r.ok
                           THEN [ok |-> TRUE, val |-> Arr(r.val), next |-> r.next]
                           ELSE DecodeFail
                [] mt = 5 ->
                     LET r == DecodeItems(buf, at, 2 * arg)
                     IN  IF r.ok
                           THEN [ok |-> TRUE, val |-> MapOf(Pairs(r.val)),
                                 next |-> r.next]
                           ELSE DecodeFail
                [] mt = 6 ->
                     LET r == DecodeItem(buf, at)
                     IN  IF r.ok
                           THEN [ok |-> TRUE, val |-> [t |-> "tagged", v |-> r.val],
                                 next |-> r.next]
                           ELSE DecodeFail
                [] OTHER ->
                     IF ai \in {20, 21}
                       THEN [ok |-> TRUE, val |-> JsBool(ai = 21), next |-> at]
                     ELSE IF ai = 23
                       THEN [ok |-> TRUE, val |-> Undefined, next |-> at]
                     ELSE [ok |-> TRUE, val |-> [t |-> "simple", v |-> arg],
                           next |-> at]

\* n consecutive data items from position pos
DecodeItems(buf, pos, n) ==
  IF n = 0 THEN [ok |-> TRUE, val |-> <<>>, next |-> pos]
  ELSE
    LET r == DecodeItem(buf, pos)
    IN  IF ~r.ok THEN DecodeFail
        ELSE LET rest == DecodeItems(buf, r.next, n - 1)
             IN  IF ~rest.ok THEN DecodeFail
                 ELSE [ok |-> TRUE, val |-> <<r.val>> \o rest.val,
                       next |-> rest.next]

RECURSIVE DecodeAll(_, _)
DecodeAll(buf, pos) ==
  IF pos > Len(buf) THEN [ok |-> TRUE, val |-> <<>>]
  ELSE
    LET r == DecodeItem(buf, pos)
    IN  IF ~r.ok THEN [ok |-> FALSE, err |-> "CborError"]
        ELSE LET rest == DecodeAll(buf, r.next)
             IN  IF ~rest.ok THEN rest
                 ELSE [ok |-> TRUE, val |-> <<r.val>> \o rest.val]

\* cbor.decodeAllSync(input): every item of the input, in order; throws
\* when the input ends inside an item or holds a malformed one, and on an
\* input that is not a buffer
cbor_decodeAllSync(input) ==
  IF ~IsBuffer(input) THEN [ok |-> FALSE, err |-> "TypeError"]
  ELSE LET r == DecodeAll(input.v, 1)
       IN  IF r.ok THEN [ok |-> TRUE, val |-> Arr(r.val)] ELSE r

----------------------------------------------------------------------------
(* crypto: SHA-256 and ECDSA as ideal primitives                           *)

HashLen == 32
PointLen == 65

\* crypto.createHash('SHA256').update(data).digest(): a 32-byte digest.
\* The digest is the length of the data followed by its first 31 bytes,
\* zero-filled, so that it is injective on data shorter than 32 bytes.
hash(data) ==
  [i \in 1..HashLen |->
     IF i = 1 THEN Len(data) % 256
     ELSE IF i - 1 <= Len(data) THEN data[i - 1] ELSE 0]

\* the signature of data under the private key that matches the public
\* point pub: no other byte string verifies for (pub, data)
IdealSign(pub, data) == <<48>> \o pub \o data

IsPoint(bytes) == Len(bytes) = PointLen /\ bytes[1] = 4

\* a DER certificate whose subject public key is pub: an outer SEQUENCE
\* (tag 0x30, one length byte) around the key
CertOf(pub) == <<48, Len(pub)>> \o pub

\* DER of SEQUENCE { SEQUENCE { OID ecPublicKey, OID P-256 } BITSTRING }:
\* hex 3059301306072a8648ce3d020106082a8648ce3d030107034200
SpkiPrefix ==
  <<48, 89, 48, 19, 6, 7, 42, 134, 72, 206, 61, 2, 1, 6, 8, 42, 134, 72,
    206, 61, 3, 1, 7, 3, 66, 0>>

\* the text between the BEGIN and END lines of a PEM block, decoded
PEMBody(pem) == FromBase64(Concat(pem.lines))

\* the public key OpenSSL reads from a PEM block, or a failure when the
\* block does not hold a certificate / SubjectPublicKeyInfo
LoadKey(pem) ==
  LET der == PEMBody(pem)
      n == Len(der)
  IN  IF pem.type = "CERTIFICATE"
        THEN IF n >= 2 /\ der[1] = 48 /\ der[2] = n - 2
                  /\ IsPoint(SubSeq(der, 3, n))
               THEN [ok |-> TRUE, val |-> SubSeq(der, 3, n)]
               ELSE [ok |-> FALSE, err |-> "OpenSSLError"]
      ELSE IF n = Len(SpkiPrefix) + PointLen
                /\ SubSeq(der, 1, Len(SpkiPrefix)) = SpkiPrefix
                /\ IsPoint(SubSeq(der, Len(SpkiPrefix) + 1, n))
        THEN [ok |-> TRUE, val |-> SubSeq(der, Len(SpkiPrefix) + 1, n)]
      ELSE [ok |-> FALSE, err |-> "OpenSSLError"]

----------------------------------------------------------------------------
(* src/verify.fidou2f.webauthn.js                                          *)

U2F_USER_PRESENTED == 1

\* the flags byte compared with the mask instead of masked by it
UserPresented_equals(flags) == flags = U2F_USER_PRESENTED

\* authrDataStruct.flags & U2F_USER_PRESENTED, as the condition of line 127
\* reads it: any non-zero value is true
UserPresented(flags) == BitAnd(flags, U2F_USER_PRESENTED) # 0

\* the signed data with the credentialId left out
SignatureBase_noCredID(rpIdHash, clientDataHash, credID, publicKey) ==
  Concat(<<(<<0>>), rpIdHash, clientDataHash, publicKey>>)

\* lines 130-132: the data the attestation signature is made over
SignatureBase(rpIdHash, clientDataHash, credID, publicKey) ==
  LET reservedByte == <<0>>
  IN  Concat(<<reservedByte, rpIdHash, clientDataHash, credID, publicKey>>)

\* verifySignature(signature, data, publicKey): throws on a signature that
\* is not a buffer and on key material OpenSSL cannot read; a signature
\* that does not match is FALSE
verifySignature(signature, data, publicKey) ==
  IF ~IsBuffer(signature) THEN [ok |-> FALSE, err |-> "TypeError"]
  ELSE LET key == LoadKey(publicKey)
       IN  IF ~key.ok THEN key
           ELSE [ok |-> TRUE, val |-> signature.v = IdealSign(key.val, data)]

\* parseMakeCredAuthData(buffer), buffer a JavaScript value
parseMakeCredAuthData(buffer) ==
  IF ~IsBuffer(buffer) THEN [ok |-> FALSE, err |-> "TypeError"]
  ELSE
    LET rpIdHash == Slice(buffer.v, 0, 32)
        b1 == SliceFrom(buffer.v, 32)
        flagsBuf == Slice(b1, 0, 1)
        b2 == SliceFrom(b1, 1)
        counterBuf == Slice(b2, 0, 4)
        b3 == SliceFrom(b2, 4)
        counter == ReadUIntBE(counterBuf, 4)
        aaguid == Slice(b3, 0, 16)
        b4 == SliceFrom(b3, 16)
        credIDLenBuf == Slice(b4, 0, 2)
        b5 == SliceFrom(b4, 2)
        credIDLen == ReadUIntBE(credIDLenBuf, 2)
    IN  IF ~counter.ok THEN counter
        ELSE IF ~credIDLen.ok THEN credIDLen
        ELSE [ok |-> TRUE,
              val |-> [rpIdHash |-> rpIdHash,
                       flagsBuf |-> flagsBuf,
                       flags |-> flagsBuf[1],
                       counter |-> counter.val,
                       counterBuf |-> counterBuf,
                       aaguid |-> aaguid,
                       credID |-> Slice(b5, 0, credIDLen.val),
                       COSEPublicKey |-> SliceFrom(b5, credIDLen.val)]]

\* COSEECDHAtoPKCS(COSEPublicKey), COSEPublicKey a buffer
COSEECDHAtoPKCS(COSEPublicKey) ==
  LET all == cbor_decodeAllSync(Buf(COSEPublicKey))
  IN  IF ~all.ok THEN all
      ELSE
        LET coseStruct == First(all.val).val
            tag == <<4>>
            x == MapGet(coseStruct, JsInt(-2))
            y == MapGet(coseStruct, JsInt(-3))
        IN  IF ~x.ok THEN x
            ELSE IF ~y.ok THEN y
            ELSE IF ~IsBuffer(x.val) \/ ~IsBuffer(y.val)
              THEN [ok |-> FALSE, err |-> "TypeError"]
            ELSE [ok |-> TRUE, val |-> Concat(<<tag, x.val.v, y.val.v>>)]

\* ASN1toPEM with b64cert.substring(start, 64) for b64cert.substr(start, 64):
\* substring takes an end position (and swaps the two when start > end)
ASN1toPEM_substring(pkBuffer) ==
  IF ~IsBuffer(pkBuffer) THEN [ok |-> FALSE, err |-> "Error"]
  ELSE
    LET isKey == Len(pkBuffer.v) = 65 /\ pkBuffer.v[1] = 4
        der == IF isKey THEN Concat(<<SpkiPrefix, pkBuffer.v>>) ELSE pkBuffer.v
        type == IF isKey THEN "PUBLIC KEY" ELSE "CERTIFICATE"
        b64cert == ToBase64(der)
        count == (Len(b64cert) + 63) \div 64
        PEMKey == [i \in 1..count |->
                     SubSeq(b64cert, Min(64 * (i - 1), 64) + 1,
                            Min(IF i = 1 THEN 64 ELSE 64 * (i - 1), Len(b64cert)))]
    IN  [ok |-> TRUE, val |-> [type |-> type, lines |-> PEMKey]]

\* ASN1toPEM(pkBuffer), pkBuffer a JavaScript value
ASN1toPEM(pkBuffer) ==
  IF ~IsBuffer(pkBuffer) THEN [ok |-> FALSE, err |-> "Error"]
  ELSE
    LET isKey == Len(pkBuffer.v) = 65 /\ pkBuffer.v[1] = 4
        der == IF isKey THEN Concat(<<SpkiPrefix, pkBuffer.v>>) ELSE pkBuffer.v
        type == IF isKey THEN "PUBLIC KEY" ELSE "CERTIFICATE"
        b64cert == ToBase64(der)
        count == (Len(b64cert) + 63) \div 64
        PEMKey == [i \in 1..count |->
                     SubSeq(b64cert, 64 * (i - 1) + 1,
                            Min(64 * i, Len(b64cert)))]
    IN  [ok |-> TRUE, val |-> [type |-> type, lines |-> PEMKey]]

\* property names of the decoded attestation object, as UTF-8 bytes
Name_authData == <<97, 117, 116, 104, 68, 97, 116, 97>>
Name_attStmt == <<97, 116, 116, 83, 116, 109, 116>>
Name_x5c == <<120, 53, 99>>
Name_sig == <<115, 105, 103>>
Name_fmt == <<102, 109, 116>>

\* The error kind of spec section 7 for a throw at each statement of
\* verifyFidoU2fAttestation (the code throws TypeError, RangeError, Error
\* and library errors; the kind is decided by where the throw happens).
Thrown(kind, stage) == [outcome |-> "error", error |-> kind, at |-> stage]
Returned(b) ==
  [outcome |-> IF b THEN "true" ELSE "false", error |-> "none", at |-> "verify"]

\* verifyFidoU2fAttestation(webAuthnResponse) as a function of its input:
\* how the call ends
verifyFidoU2fAttestation(webAuthnResponse) ==
  LET attestationBuffer == base64url_toBuffer(webAuthnResponse.attestationObject)
      decoded == cbor_decodeAllSync(Buf(attestationBuffer.val))
      ctapMakeCredResp == First(decoded.val).val
      authData == GetProp(ctapMakeCredResp, Name_authData)
      parsed == parseMakeCredAuthData(authData.val)
      authrDataStruct == parsed.val
      clientData == base64url_toBuffer(webAuthnResponse.clientDataJSON)
      clientDataHash == hash(clientData.val)
      publicKey == COSEECDHAtoPKCS(authrDataStruct.COSEPublicKey)
      signatureBase == SignatureBase(authrDataStruct.rpIdHash, clientDataHash,
                                     authrDataStruct.credID, publicKey.val)
      attStmt == GetProp(ctapMakeCredResp, Name_attStmt)
      x5c == GetProp(attStmt.val, Name_x5c)
      leaf == First(x5c.val)
      PEMCertificate == ASN1toPEM(leaf.val)
      signature == GetProp(attStmt.val, Name_sig)
      verified == verifySignature(signature.val, signatureBase, PEMCertificate.val)
  IN  IF ~attestationBuffer.ok THEN Thrown("MalformedInput", "decode")
      ELSE IF ~decoded.ok THEN Thrown("MalformedInput", "decode")
      ELSE IF ~authData.ok THEN Thrown("MalformedInput", "parse")
      ELSE IF ~parsed.ok THEN Thrown("MalformedAuthenticatorData", "parse")
      ELSE IF ~UserPresented(authrDataStruct.flags)
        THEN Thrown("UserNotPresent", "checkUP")
      ELSE IF ~clientData.ok THEN Thrown("MalformedInput", "hash")
      ELSE IF ~publicKey.ok THEN Thrown("UnsupportedKeyFormat", "cose")
      ELSE IF ~x5c.ok \/ ~leaf.ok THEN Thrown("MalformedInput", "pem")
      ELSE IF ~PEMCertificate.ok THEN Thrown("InvalidInput", "pem")
      ELSE IF ~verified.ok
        THEN Thrown(IF verified.err = "TypeError" THEN "MalformedInput"
                    ELSE "InvalidKeyMaterial", "verify")
      ELSE Returned(verified.val)

----------------------------------------------------------------------------
(* Test vectors: what a response is built from                             *)

\* bounds of the vector families
MaxCredIdLen == 2
MaxClientDataLen == 3
MaxPemLen == 100

Fmt_fido_u2f == <<102, 105, 100, 111, 45, 117, 50, 102>>
Fmt_packed == <<112, 97, 99, 107, 101, 100>>

\* two attestation key pairs, named by their public points
KeyA == <<4>> \o Fill(32, 161) \o Fill(32, 162)
KeyB == <<4>> \o Fill(32, 177) \o Fill(32, 178)

\* the bytes of the credential public key of a vector: a COSE_Key map
\* {1: kty, 3: -7, -1: 1, -2: x, -3: y} or one of its malformed variants
CoseBytes(c) ==
  LET Common == <<EncInt(1), EncInt(c.kty), EncInt(3), EncInt(-7),
                  EncInt(-1), EncInt(1)>>
      X == <<EncInt(-2), EncBstr(c.x)>>
      Y == <<EncInt(-3), EncBstr(c.y)>>
      Whole == EncMap(Common \o X \o Y)
  IN  CASE c.kind = "ec2" -> Whole
        [] c.kind = "noX" -> EncMap(Common \o Y)
        [] c.kind = "noY" -> EncMap(Common \o X)
        [] c.kind = "xText" -> EncMap(Common \o <<EncInt(-2), EncTstr(c.x)>> \o Y)
        [] c.kind = "yBool" -> EncMap(Common \o X \o <<EncInt(-3), <<245>> >>)
        [] c.kind = "array" -> EncArray(<<EncBstr(c.x), EncBstr(c.y)>>)
        [] c.kind = "textKeys" ->
             EncMap(<<EncTstr(<<120>>), EncBstr(c.x), EncTstr(<<121>>), EncBstr(c.y)>>)
        [] c.kind = "truncated" -> SubSeq(Whole, 1, Len(Whole) - 1)
        [] c.kind = "extension" -> Whole \o EncMap(<<>>)
        [] OTHER -> <<>>

\* the authenticatorData of a vector: the fields of spec section 3 in
\* order; v.keep >= 0 keeps only that many leading bytes
AuthDataOf(v) ==
  LET whole == Concat(<<v.rpIdHash, <<v.flags>>, v.counter, v.aaguid,
                        <<v.credIdLen \div 256, v.credIdLen % 256>>,
                        v.credId, CoseBytes(v.cose)>>)
  IN  IF v.keep < 0 THEN whole ELSE SubSeq(whole, 1, Min(v.keep, Len(whole)))

EncBstrs(list) == [i \in 1..Len(list) |-> EncBstr(list[i])]

\* the bytes of the attestation object of a vector
AttObjBytes(v) ==
  LET Fmt == <<EncTstr(Name_fmt), EncTstr(v.fmt)>>
      Sig == <<EncTstr(Name_sig),
               IF v.ao = "sigText" THEN EncTstr(v.sig) ELSE EncBstr(v.sig)>>
      X5c == <<EncTstr(Name_x5c), EncArray(EncBstrs(v.x5c))>>
      AttStmt == <<EncTstr(Name_attStmt),
                   EncMap(IF v.ao = "noX5c" THEN Sig ELSE Sig \o X5c)>>
      AuthData == <<EncTstr(Name_authData), EncBstr(AuthDataOf(v))>>
      Whole == EncMap(Fmt \o AttStmt \o AuthData)
  IN  CASE v.ao = "truncated" -> SubSeq(Whole, 1, Len(Whole) - 1)
        [] v.ao = "reserved" -> <<28>> \o Whole
        [] v.ao = "empty" -> <<>>
        [] v.ao = "notMap" -> EncArray(<<EncBstr(AuthDataOf(v))>>)
        [] v.ao = "noAuthData" -> EncMap(Fmt \o AttStmt)
        [] v.ao = "noAttStmt" -> EncMap(Fmt \o AuthData)
        [] OTHER -> Whole

\* webAuthnResponse.response for a vector
Response(v) ==
  [attestationObject |->
     IF v.ao = "undefined" THEN Undefined
     ELSE B64Str(ToBase64Url(AttObjBytes(v))),
   clientDataJSON |->
     IF v.cd = "undefined" THEN Undefined
     ELSE B64Str(ToBase64Url(v.clientData))]

\* the signed data of spec section 3 for a vector, from its fields
ExpectedBase(v) ==
  Concat(<<(<<0>>), v.rpIdHash, hash(v.clientData), v.credId,
           (<<4>>), v.cose.x, v.cose.y>>)

X32 == Fill(32, 193)
Y32 == Ramp(32, 1)

BaseVector ==
  [ao |-> "ok", fmt |-> Fmt_fido_u2f, rpIdHash |-> Fill(32, 17), flags |-> 65,
   counter |-> <<0, 0, 0, 7>>, aaguid |-> Fill(16, 170),
   credIdLen |-> MaxCredIdLen, credId |-> Ramp(MaxCredIdLen, 200),
   cose |-> [kind |-> "ec2", kty |-> 2, x |-> X32, y |-> Y32],
   keep |-> -1, x5c |-> <<CertOf(KeyA)>>, sig |-> <<>>,
   cd |-> "ok", clientData |-> Ramp(MaxClientDataLen, 123)]

\* a credentialId of n bytes, announced as n bytes
WithCredId(v, n) == [v EXCEPT !.credIdLen = n, !.credId = Ramp(n, 200)]

\* the leaf certificates tried: a certificate of key A, one of key B
\* followed by one of key A, key A as a raw point, and no certificate
X5cChoices ==
  {<<CertOf(KeyA)>>, <<CertOf(KeyB), CertOf(KeyA)>>, <<KeyA>>, <<>>}

\* the signatures tried on v: by key A over the expected data, by key B
\* over it, and the first with its last byte changed
SigKinds == {"byA", "byB", "flipped"}

WithSig(v, kind) ==
  LET good == IdealSign(KeyA, ExpectedBase(v))
  IN  [v EXCEPT !.sig =
         CASE kind = "byA" -> good
           [] kind = "byB" -> IdealSign(KeyB, ExpectedBase(v))
           [] OTHER -> FlipByte(good, Len(good))]

Cose(kind, kty, x, y) == [kind |-> kind, kty |-> kty, x |-> x, y |-> y]

CoseKinds ==
  {"ec2", "noX", "noY", "xText", "yBool", "array", "textKeys", "truncated",
   "extension", "none"}

\* the bytes of the fixed part of authenticatorData: 32 + 1 + 4 + 16 + 2
FixedLen == 55

\* The family of the main specification: every combination of credentialId
\* length, flags, key, certificate, signature and clientDataJSON, with the
\* authenticatorData whole, cut after its fixed part, or empty; and the
\* attestation objects that do not decode to the expected map.
GeneralVectors ==
  {WithSig([WithCredId(BaseVector, n) EXCEPT
              !.flags = f, !.cose = c, !.x5c = x, !.cd = d, !.keep = k], s) :
     n \in {0, MaxCredIdLen},
     f \in {0, 1, 64, 193},
     c \in {Cose("ec2", 2, X32, Y32), Cose("ec2", 2, Ramp(31, 1), Y32),
            Cose("noX", 2, X32, Y32), Cose("none", 2, X32, Y32)},
     x \in X5cChoices,
     s \in SigKinds,
     d \in {"ok", "undefined"},
     k \in {-1, FixedLen, 0}}
  \cup
  {WithSig([BaseVector EXCEPT !.ao = a], s) :
     a \in {"undefined", "truncated", "reserved", "empty", "notMap",
            "noAuthData", "noAttStmt", "noX5c", "sigText"},
     s \in SigKinds}

\* The family of the parser: every length of authenticatorData from empty
\* to whole, for every announced and every actual credentialId length.
\* (The counters tried stay below 2^31, the largest integer TLC computes
\* with; the code reads the counter and never uses it.)
ParseVectors ==
  {WithSig([BaseVector EXCEPT
              !.credIdLen = announced, !.credId = Ramp(n, 200),
              !.counter = c, !.flags = f, !.keep = k], "byA") :
     announced \in 0..(MaxCredIdLen + 1),
     n \in 0..MaxCredIdLen,
     c \in {<<0, 0, 0, 7>>, <<1, 2, 3, 4>>},
     f \in {0, 65},
     k \in 0..Len(AuthDataOf(BaseVector))}

\* The family of the user-presence check: every flags byte, with a
\* matching and with a non-matching signature.
FlagsVectors ==
  {WithSig([BaseVector EXCEPT !.flags = f], s) :
     f \in 0..255, s \in {"byA", "byB"}}

\* The family of the key converter: every shape of COSE key, key type
\* and coordinate length.
CoseVectors ==
  {WithSig([BaseVector EXCEPT !.cose = Cose(kind, kty, x, y)], "byA") :
     kind \in CoseKinds,
     kty \in {1, 2, 3},
     x \in {X32, Ramp(31, 1), Ramp(33, 1), <<>>},
     y \in {Y32, Ramp(31, 9), Ramp(33, 9)}}

\* The family of the PEM encoder: leaf "certificates" of every length up
\* to MaxPemLen, some starting with 0x04, besides the real ones.
PemVectors ==
  {WithSig([BaseVector EXCEPT !.x5c = <<Ramp(n, b)>>], "byA") :
     n \in 0..MaxPemLen, b \in {4, 48, 250}}
  \cup {WithSig([BaseVector EXCEPT !.x5c = x], "byA") : x \in X5cChoices}

----------------------------------------------------------------------------
(* One call of verifyFidoU2fAttestation, statement by statement            *)

VARIABLES
  vector,             \* the test vector the response was built from
  webAuthnResponse,   \* the argument: webAuthnResponse.response
  pc,                 \* the statement to run next, "returned" or "thrown"
  steps,              \* the statements run so far, in order
  ctapMakeCredResp,
  authrDataStruct,
  clientDataHash,
  publicKey,
  signatureBase,
  PEMCertificate,
  result,             \* the returned boolean, once pc = "returned"
  error               \* the kind of the error thrown, once pc = "thrown"

vars == <<vector, webAuthnResponse, pc, steps, ctapMakeCredResp,
          authrDataStruct, clientDataHash, publicKey, signatureBase,
          PEMCertificate, result, error>>

locals == <<ctapMakeCredResp, authrDataStruct, clientDataHash, publicKey,
            signatureBase, PEMCertificate>>

\* the statement at pc runs: the call goes on at statement next
Go(stage, next) ==
  /\ pc' = next
  /\ steps' = Append(steps, stage)
  /\ UNCHANGED <<vector, webAuthnResponse, result, error>>

\* the statement at pc throws: the call ends
Throw(stage, kind) ==
  /\ pc' = "thrown"
  /\ steps' = Append(steps, stage)
  /\ error' = kind
  /\ UNCHANGED <<vector, webAuthnResponse, result, locals>>

\* lines 122-123
Decode ==
  /\ pc = "decode"
  /\ LET attestationBuffer ==
           base64url_toBuffer(webAuthnResponse.attestationObject)
         decoded == cbor_decodeAllSync(Buf(attestationBuffer.val))
     IN  IF ~attestationBuffer.ok \/ ~decoded.ok
           THEN Throw("decode", "MalformedInput")
           ELSE /\ ctapMakeCredResp' = First(decoded.val).val
                /\ Go("decode", "parse")
                /\ UNCHANGED <<authrDataStruct, clientDataHash, publicKey,
                               signatureBase, PEMCertificate>>

\* line 125
ParseAuthData ==
  /\ pc = "parse"
  /\ LET authData == GetProp(ctapMakeCredResp, Name_authData)
         parsed == parseMakeCredAuthData(authData.val)
     IN  IF ~authData.ok THEN Throw("parse", "MalformedInput")
         ELSE IF ~parsed.ok THEN Throw("parse", "MalformedAuthenticatorData")
         ELSE /\ authrDataStruct' = parsed.val
              /\ Go("parse", "checkUP")
              /\ UNCHANGED <<ctapMakeCredResp, clientDataHash, publicKey,
                             signatureBase, PEMCertificate>>

\* line 127
CheckUserPresence ==
  /\ pc = "checkUP"
  /\ IF ~UserPresented(authrDataStruct.flags)
       THEN Throw("checkUP", "UserNotPresent")
       ELSE Go("checkUP", "hash") /\ UNCHANGED locals

\* line 129
HashClientData ==
  /\ pc = "hash"
  /\ LET clientData == base64url_toBuffer(webAuthnResponse.clientDataJSON)
     IN  IF ~clientData.ok THEN Throw("hash", "MalformedInput")
         ELSE /\ clientDataHash' = hash(clientData.val)
              /\ Go("hash", "cose")
              /\ UNCHANGED <<ctapMakeCredResp, authrDataStruct, publicKey,
                             signatureBase, PEMCertificate>>

\* line 131
ConvertCOSEKey ==
  /\ pc = "cose"
  /\ LET converted == COSEECDHAtoPKCS(authrDataStruct.COSEPublicKey)
     IN  IF ~converted.ok THEN Throw("cose", "UnsupportedKeyFormat")
         ELSE /\ publicKey' = converted.val
              /\ Go("cose", "base")
              /\ UNCHANGED <<ctapMakeCredResp, authrDataStruct, clientDataHash,
                             signatureBase, PEMCertificate>>

\* line 132
BuildSignatureBase ==
  /\ pc = "base"
  /\ signatureBase' = SignatureBase(authrDataStruct.rpIdHash, clientDataHash,
                                    authrDataStruct.credID, publicKey)
  /\ Go("base", "pem")
  /\ UNCHANGED <<ctapMakeCredResp, authrDataStruct, clientDataHash, publicKey,
                 PEMCertificate>>

\* line 134
PEMEncode ==
  /\ pc = "pem"
  /\ LET attStmt == GetProp(ctapMakeCredResp, Name_attStmt)
         x5c == GetProp(attStmt.val, Name_x5c)
         leaf == First(x5c.val)
         pem == ASN1toPEM(leaf.val)
     IN  IF ~x5c.ok \/ ~leaf.ok THEN Throw("pem", "MalformedInput")
         ELSE IF ~pem.ok THEN Throw("pem", "InvalidInput")
         ELSE /\ PEMCertificate' = pem.val
              /\ Go("pem", "verify")
              /\ UNCHANGED <<ctapMakeCredResp, authrDataStruct, clientDataHash,
                             publicKey, signatureBase>>

\* lines 135-137
Verify ==
  /\ pc = "verify"
  /\ LET attStmt == GetProp(ctapMakeCredResp, Name_attStmt)
         signature == GetProp(attStmt.val, Name_sig)
         verified == verifySignature(signature.val, signatureBase, PEMCertificate)
     IN  IF ~verified.ok
           THEN Throw("verify", IF verified.err = "TypeError"
                                  THEN "MalformedInput"
                                  ELSE "InvalidKeyMaterial")
           ELSE /\ pc' = "returned"
                /\ steps' = Append(steps, "verify")
                /\ result' = verified.val
                /\ UNCHANGED <<vector, webAuthnResponse, error, locals>>

Next ==
  \/ Decode
  \/ ParseAuthData
  \/ CheckUserPresence
  \/ HashClientData
  \/ ConvertCOSEKey
  \/ BuildSignatureBase
  \/ PEMEncode
  \/ Verify

Begin(v) ==
  /\ vector = v
  /\ webAuthnResponse = Response(v)
  /\ pc = "decode"
  /\ steps = <<>>
  /\ ctapMakeCredResp = Undefined
  /\ authrDataStruct = Undefined
  /\ clientDataHash = <<>>
  /\ publicKey = <<>>
  /\ signatureBase = <<>>
  /\ PEMCertificate = Undefined
  /\ result = FALSE
  /\ error = "none"

Init == \E v \in GeneralVectors : Begin(v)
InitParse == \E v \in ParseVectors : Begin(v)
InitFlags == \E v \in FlagsVectors : Begin(v)
InitCose == \E v \in CoseVectors : Begin(v)
InitPem == \E v \in PemVectors : Begin(v)

Spec == Init /\ [][Next]_vars
SpecParse == InitParse /\ [][Next]_vars
SpecFlags == InitFlags /\ [][Next]_vars
SpecCose == InitCose /\ [][Next]_vars
SpecPem == InitPem /\ [][Next]_vars

----------------------------------------------------------------------------
(* What the properties speak of                                            *)

Pipeline ==
  <<"decode", "parse", "checkUP", "hash", "cose", "base", "pem", "verify">>

Ran(stage) == \E i \in 1..Len(steps) : steps[i] = stage

\* the call has ended with an error thrown by the statement of that stage
ThrownAt(stage) == pc = "thrown" /\ steps[Len(steps)] = stage

\* the statement of that stage has run and did not throw
Passed(stage) == Ran(stage) /\ ~ThrownAt(stage)

\* the authenticatorData the call was given
GivenAuthData == AuthDataOf(vector)

\* the value of its 16-bit big-endian credentialId-length field (bytes
\* 53..54, counted from 0)
LengthField(ad) == 256 * ad[54] + ad[55]

\* the buffer has the fixed part, and after it the announced credentialId
Complete(ad) == Len(ad) >= FixedLen /\ Len(ad) - FixedLen >= LengthField(ad)

----------------------------------------------------------------------------
(* C4 *)

\* C4: for every authenticatorData buffer of length 55 + credIdLen + keyLen
\* whose length field equals credIdLen, the parser returns rpIdHash = bytes
\* 0..31, flags = byte 32, counter = bytes 33..36 as a big-endian u32, aaguid =
\* bytes 37..52, credentialId = the next credIdLen bytes and the COSE key =
\* the trailing keyLen bytes; the fields are in input order and cover every
\* byte of the buffer.
C4_ParserSplitsEveryByte ==
  (Ran("parse") /\ Complete(GivenAuthData)) =>
    LET ad == GivenAuthData
        n == LengthField(ad)
        r == authrDataStruct
    IN  /\ Passed("parse")
        /\ r.rpIdHash = SubSeq(ad, 1, 32)
        /\ r.flags = ad[33]
        /\ r.counter = 16777216 * ad[34] + 65536 * ad[35] + 256 * ad[36] + ad[37]
        /\ r.aaguid = SubSeq(ad, 38, 53)
        /\ r.credID = SubSeq(ad, 56, 55 + n)
        /\ r.COSEPublicKey = SubSeq(ad, 56 + n, Len(ad))
        /\ r.rpIdHash \o r.flagsBuf \o r.counterBuf \o r.aaguid
             \o SubSeq(ad, 54, 55) \o r.credID \o r.COSEPublicKey = ad
        /\ 32 + 1 + 4 + 16 + 2 + Len(r.credID) + Len(r.COSEPublicKey) = Len(ad)

\* a complete buffer with a non-empty credentialId, a counter whose bytes
\* all differ, and key bytes after the credentialId has been parsed
C4_Witness ==
  /\ Passed("parse")
  /\ Complete(GivenAuthData)
  /\ LengthField(GivenAuthData) = MaxCredIdLen
  /\ Len(GivenAuthData) > FixedLen + MaxCredIdLen
  /\ vector.counter = <<1, 2, 3, 4>>

----------------------------------------------------------------------------
(* C2 *)

\* C2: parseMakeCredAuthData fails with MalformedAuthenticatorData whenever
\* the buffer is shorter than the layout requires: for every buffer shorter
\* than 55 bytes and for every buffer with fewer bytes after the length field
\* than it announces, the parser raises the error and returns no record.
C2_ShortBufferRejected ==
  (Ran("parse") /\ ~Complete(GivenAuthData)) =>
    (ThrownAt("parse") /\ error = "MalformedAuthenticatorData")

----------------------------------------------------------------------------
(* C3 *)

\* C3: for every flags byte 0..255 in an otherwise well-formed response: if
\* bit 0 is 0 the call raises UserNotPresent and never returns a boolean; if
\* bit 0 is 1 the user-presence check passes whatever the other seven bits.
C3_UserPresenceIsBitZero ==
  /\ (vector.flags % 2 = 0) =>
       /\ pc # "returned"
       /\ Ran("checkUP") => (ThrownAt("checkUP") /\ error = "UserNotPresent")
  /\ (vector.flags % 2 = 1) =>
       /\ error # "UserNotPresent"
       /\ Ran("checkUP") => Passed("checkUP")

\* the check has thrown on a flags byte with every bit but bit 0 set
C3_Witness ==
  vector.flags = 254 /\ ThrownAt("checkUP") /\ error = "UserNotPresent"

----------------------------------------------------------------------------
(* C7 *)

\* the COSE key of the vector is an EC2 key with two 32-byte coordinates
WellFormedKey(c) ==
  c.kind \in {"ec2", "extension"} /\ c.kty = 2 /\ Len(c.x) = 32 /\ Len(c.y) = 32

\* C7: COSEECDHAtoPKCS returns exactly 0x04 || x || y (65 bytes) when labels
\* -2 and -3 are 32-byte strings of an EC2 key, fails with
\* UnsupportedKeyFormat when a coordinate is absent, is no byte string or is
\* not 32 bytes long, or the key type is not EC2, and never returns a buffer
\* whose length is not 65.
C7_OnlyEC2KeysConvert ==
  Ran("cose") =>
    IF WellFormedKey(vector.cose)
      THEN Passed("cose") /\ publicKey = <<4>> \o vector.cose.x \o vector.cose.y
      ELSE ThrownAt("cose") /\ error = "UnsupportedKeyFormat"

----------------------------------------------------------------------------
(* C8 *)

\* the first entry of x5c, the buffer handed to ASN1toPEM
Leaf == vector.x5c[1]

\* every line has at most 64 characters and only the last may have fewer
LinesWrapped(lines) ==
  \A i \in 1..Len(lines) :
    /\ Len(lines[i]) <= 64
    /\ i < Len(lines) => Len(lines[i]) = 64

\* C8 as stated: joining the lines between the markers and base64-decoding
\* them recovers the exact input bytes, on the certificate path (label
\* CERTIFICATE) and on the public-key path (65 bytes starting 0x04, label
\* PUBLIC KEY); every line has at most 64 characters, only the last fewer.
C8_PemBodyIsInput ==
  Passed("pem") =>
    /\ PEMBody(PEMCertificate) = Leaf
    /\ PEMCertificate.type = IF IsPoint(Leaf) THEN "PUBLIC KEY" ELSE "CERTIFICATE"
    /\ LinesWrapped(PEMCertificate.lines)

\* C8 as amended: on the certificate path the decoded body is the exact
\* input; on the public-key path it is the fixed 26-byte
\* SubjectPublicKeyInfo prefix followed by the exact input; the labels and
\* the wrapping are as stated.
C8_PemBodyIsInputAfterPrefix ==
  Passed("pem") =>
    /\ PEMBody(PEMCertificate) =
         IF IsPoint(Leaf) THEN SpkiPrefix \o Leaf ELSE Leaf
    /\ PEMCertificate.type = IF IsPoint(Leaf) THEN "PUBLIC KEY" ELSE "CERTIFICATE"
    /\ LinesWrapped(PEMCertificate.lines)

\* a raw point has been encoded: two lines, the second one short
C8_Witness ==
  /\ Passed("pem")
  /\ IsPoint(Leaf)
  /\ PEMCertificate.type = "PUBLIC KEY"
  /\ Len(PEMCertificate.lines) = 2
  /\ Len(PEMCertificate.lines[2]) < 64

----------------------------------------------------------------------------
(* Well-formed and genuine responses                                       *)

Ended == pc \in {"returned", "thrown"}

\* how the call ended, in the shape verifyFidoU2fAttestation gives
Outcome ==
  IF pc = "returned" THEN Returned(result)
  ELSE Thrown(error, steps[Len(steps)])

\* the statement-by-statement run ends as the function says it does
RunAgreesWithFunction ==
  Ended => Outcome = verifyFidoU2fAttestation(webAuthnResponse)

\* the attestation object decodes, authenticatorData is whole, the key is
\* an EC2 key, clientDataJSON is there and x5c[0] is a certificate or a
\* raw point
WellFormed(v) ==
  /\ v.ao = "ok" /\ v.cd = "ok" /\ v.keep = -1
  /\ Len(v.credId) = v.credIdLen
  /\ WellFormedKey(v.cose)
  /\ Len(v.x5c) >= 1
  /\ \E k \in {KeyA, KeyB} : v.x5c[1] \in {k, CertOf(k)}

\* the key pair of the leaf certificate of a well-formed vector
LeafKey(v) == CHOOSE k \in {KeyA, KeyB} : v.x5c[1] \in {k, CertOf(k)}

\* well-formed, the user present, and signed over the data of spec
\* section 3 by the private key of the leaf certificate
Genuine(v) ==
  /\ WellFormed(v)
  /\ v.flags % 2 = 1
  /\ v.sig = IdealSign(LeafKey(v), ExpectedBase(v))

----------------------------------------------------------------------------
(* C1 *)

\* C1: whenever the call reaches the signature check, the signed data is
\* exactly 0x00, the 32-byte rpIdHash, the 32-byte SHA-256 of the decoded
\* clientDataJSON, the credentialId and the 65-byte point 0x04 || x || y of
\* the COSE key, in this order; its length is 1 + 32 + 32 + credIdLen + 65.
C1_SignedDataLayout ==
  (pc = "verify" \/ Ran("verify")) =>
    /\ signatureBase =
         Concat(<<(<<0>>), vector.rpIdHash, hash(vector.clientData),
                  vector.credId, (<<4>>), vector.cose.x, vector.cose.y>>)
    /\ Len(signatureBase) = 1 + 32 + 32 + vector.credIdLen + 65

----------------------------------------------------------------------------
(* C5 *)

\* buf with the byte at position i changed by d (d not a multiple of 256)
ChangeByte(buf, i, d) == [buf EXCEPT ![i] = (@ + d) % 256]

\* v with one byte of the signature, of the decoded clientDataJSON or of
\* the credentialId changed and everything else kept
OneByteChanges(v) ==
  {[v EXCEPT !.sig = ChangeByte(@, i, d)] :
     i \in 1..Len(v.sig), d \in {1, 128}}
  \cup {[v EXCEPT !.clientData = ChangeByte(@, i, d)] :
          i \in 1..Len(v.clientData), d \in {1, 128}}
  \cup {[v EXCEPT !.credId = ChangeByte(@, i, d)] :
          i \in 1..Len(v.credId), d \in {1, 128}}

\* C5: with an ideal signature scheme and an injective hash, the call
\* returns true for a well-formed response signed over the specified
\* concatenation by the private key matching x5c[0], and returns false for
\* that response with any one byte of the signature, of the decoded
\* clientDataJSON or of the credentialId changed.
C5_GenuineVerifiesAndChangesDoNot ==
  (Ended /\ Genuine(vector)) =>
    /\ pc = "returned" /\ result = TRUE
    /\ \A w \in OneByteChanges(vector) :
         verifyFidoU2fAttestation(Response(w)) = Returned(FALSE)

\* a genuine response with a non-empty credentialId has been verified
C5_Witness ==
  /\ pc = "returned" /\ result = TRUE
  /\ Genuine(vector)
  /\ Len(vector.credId) = MaxCredIdLen
  /\ vector.sig = IdealSign(KeyA, signatureBase)

----------------------------------------------------------------------------
(* C6 *)

Undecodable == {"undefined", "truncated", "reserved", "empty"}

\* C6: the call returns false only from the final signature comparison: in
\* every run that returns false the attestation object decoded, authData
\* was parsed without shortage, the user-presence bit was set, the COSE key
\* became a 65-byte point and x5c[0] was PEM-encoded; an attestationObject
\* that does not decode raises MalformedInput; a key that is no EC2 key with
\* 32-byte coordinates never leads to a boolean; a signature that does not
\* match a well-formed response gives false and no error.
C6_FalseOnlyFromComparison ==
  /\ (pc = "returned" /\ ~result) =>
       /\ vector.ao \notin Undecodable
       /\ Complete(GivenAuthData)
       /\ vector.flags % 2 = 1
       /\ Len(publicKey) = 65
       /\ Passed("pem")
  /\ (Ended /\ vector.ao \in Undecodable) =>
       (pc = "thrown" /\ error = "MalformedInput")
  /\ (Ended /\ ~WellFormedKey(vector.cose)) => pc = "thrown"
  /\ (Ended /\ WellFormed(vector) /\ vector.flags % 2 = 1 /\ ~Genuine(vector)) =>
       (pc = "returned" /\ ~result)

----------------------------------------------------------------------------
(* C9 *)

IsPrefix(s, t) == Len(s) <= Len(t) /\ s = SubSeq(t, 1, Len(s))

\* C9: the statements run in the order decode, parse, user presence, hash,
\* COSE key, signature base, PEM, verify, and the first that fails ends the
\* call; a response whose user-presence bit is unset raises UserNotPresent
\* even when its clientDataJSON, COSE key, x5c[0] or signature are invalid
\* too, and a response whose authData is too short raises the parse error
\* before the user-presence check is evaluated.
C9_FixedOrderFirstFailureEnds ==
  /\ IsPrefix(steps, Pipeline)
  /\ (pc \notin {"returned", "thrown"}) => pc = Pipeline[Len(steps) + 1]
  /\ (Ended /\ vector.ao = "ok" /\ Complete(GivenAuthData)
        /\ vector.flags % 2 = 0) =>
       (ThrownAt("checkUP") /\ error = "UserNotPresent")
  /\ (Ended /\ vector.ao = "ok" /\ ~Complete(GivenAuthData)) =>
       (ThrownAt("parse") /\ error = "MalformedAuthenticatorData")

----------------------------------------------------------------------------
(* C10 *)

\* the entries of x5c after the first replaced
OtherChain(x5c) ==
  IF Len(x5c) = 0 THEN x5c ELSE <<x5c[1], Ramp(5, 48), CertOf(KeyB)>>

\* responses that agree with v on rpIdHash, bit 0 of flags, credentialId,
\* the COSE key, clientDataJSON, sig and x5c[0], and differ from it in fmt,
\* the counter, the aaguid, the other flag bits or the rest of x5c
Twins(v) ==
  {[v EXCEPT !.fmt = Fmt_packed],
   [v EXCEPT !.counter = <<1, 2, 3, 4>>],
   [v EXCEPT !.aaguid = Fill(16, 0)],
   [v EXCEPT !.x5c = OtherChain(@)],
   [v EXCEPT !.fmt = Fmt_packed, !.counter = <<127, 255, 255, 255>>,
             !.aaguid = Ramp(16, 1), !.x5c = OtherChain(@),
             !.flags = 254 + (@ % 2)]}
  \cup {[v EXCEPT !.flags = (@ % 2) + 2 * k] : k \in {0, 1, 32, 96}}

\* C10: the outcome (true, false, or which error) is the same for any two
\* well-formed responses that agree on rpIdHash, bit 0 of flags,
\* credentialId, the COSE key, clientDataJSON, sig and x5c[0]: it does not
\* depend on fmt, the counter, the aaguid, the other flag bits or the later
\* entries of x5c.
C10_OutcomeIgnoresUnsignedFields ==
  (Ended /\ vector.ao = "ok" /\ vector.keep = -1) =>
    \A w \in Twins(vector) :
      LET other == verifyFidoU2fAttestation(Response(w))
      IN  other.outcome = Outcome.outcome /\ other.error = Outcome.error

\* a response that verified has twins, one of them in another format and
\* with other flag bits
C10_Witness ==
  /\ pc = "returned" /\ result = TRUE
  /\ vector.fmt = Fmt_fido_u2f
  /\ vector.flags = 193
  /\ verifyFidoU2fAttestation(
       Response([vector EXCEPT !.fmt = Fmt_packed, !.flags = 1])).outcome = "true"

====
